---- MODULE Spec2Model ----
(***************************************************************************)
(* Model of server.mjs: the Keepa-backed deal pipeline (productToDeal,     *)
(* scoreDeal, decide), the two authenticated routes of the first server    *)
(* (GET /deals/today, POST /arbitrage/score) and the second server's       *)
(* GET /deals behind its own auth middleware.                              *)
(*                                                                         *)
(* Encoding of JavaScript values                                           *)
(*   - a value that may be undefined/null is a sequence of length 0 or 1:  *)
(*     <<>> is undefined/null, <<v>> is the value v;                       *)
(*   - prices of the provider are integers in cents, as Keepa sends them;  *)
(*   - derived money amounts are exact integers in units of 1/10000 dollar *)
(*     (so price * 0.15 is 15 * cents); roi is the exact fraction          *)
(*     [num, den] with den > 0.                                            *)
(***************************************************************************)
EXTENDS Integers, Sequences, FiniteSets, TLC

VARIABLES
  rec,      \* SpecDeal: the provider record handed to productToDeal
  deal,     \* SpecDeal: <<>> before the call, <<result>> after it
  sig,      \* SpecDecide: the arguments {roi, profit, nearbyOffers} of decide
  verdict,  \* SpecDecide: <<>> before the call, <<decision>> after it
  ARB_KEY,  \* process.env.ARB_KEY: <<>> when unset
  pc,       \* where the request in progress stands
  req,      \* the request in progress
  calls,    \* outbound provider calls issued by the request, in order
  replies,  \* what the provider answered to each call, in order
  found,    \* <<asins>> once keepaProductFinder has returned, else <<>>
  res       \* responses sent for the request, in order

vars == <<rec, deal, sig, verdict, ARB_KEY, pc, req, calls, replies, found, res>>

\* ------------------------------------------------------------ JS values

None == <<>>

Some(v) == <<v>>

\* a ?? b
Nullish(a, b) == IF a # None THEN a ELSE b

\* (a || 0) for a number that may be undefined
OrZero(a) == IF a = None THEN 0 ELSE a[1]

\* p.stats?.<f>
StatsField(p, f) == IF p.stats = None THEN None ELSE p.stats[1][f]

Max(a, b) == IF a >= b THEN a ELSE b

Min(a, b) == IF a <= b THEN a ELSE b

\* n / d rounded to the nearest integer, halves away from zero (toFixed)
RoundDiv(n, d) ==
  IF n >= 0 THEN (2 * n + d) \div (2 * d) ELSE 0 - ((2 * (0 - n) + d) \div (2 * d))

\* Math.round(x / 3): floor(x / 3 + 1/2)
RoundThird(x) == (2 * x + 3) \div 6

\* ------------------------------------------------------------ fee model

\* price in cents; the three fees in 1/10000 dollar
estimateFbaFee(price) ==
  [referral |-> 15 * price, fba |-> 35000, storageEst |-> 3000]

\* ------------------------------------------------------------ scoring

\* roi > t / 100 for the fraction roi
RoiGT(roi, t) == roi.num * 100 > t * roi.den

RoiGE(roi, t) == roi.num * 100 >= t * roi.den

\* profit in 1/10000 dollar, dropsPerMonth and nearbyOffers optional numbers
scoreDeal(roi, profit, dropsPerMonth, nearbyOffers, reviewOk) ==
  (IF RoiGT(roi, 30) THEN 30 ELSE 0)
  + (IF profit > 50000 THEN 25 ELSE 0)
  + (IF OrZero(dropsPerMonth) > 5 THEN 20 ELSE 0)
  + (IF Nullish(nearbyOffers, Some(99))[1] < 5 THEN 15 ELSE 0)
  + (IF reviewOk THEN 10 ELSE 0)

decideInclusive(roi, profit, nearbyOffers) ==
  IF RoiGE(roi, 30) /\ profit >= 40000 /\ Nullish(nearbyOffers, Some(99))[1] <= 6
  THEN "BUY"
  ELSE IF RoiGE(roi, 15) /\ profit >= 30000 THEN "WATCH" ELSE "PASS"

decide(roi, profit, nearbyOffers) ==
  IF RoiGT(roi, 30) /\ profit > 50000 /\ Nullish(nearbyOffers, Some(99))[1] < 5
  THEN "BUY"
  ELSE IF RoiGT(roi, 15) /\ profit > 30000 THEN "WATCH" ELSE "PASS"

linksFor(asin) == [keepaProduct |-> asin, amazonDetailPage |-> asin]

\* ------------------------------------------------------------ productToDeal

\* Array.isArray(p.offers) ? p.offers : []
OffersOf(p) == IF p.offers = None THEN <<>> ELSE p.offers[1]

\* offers.some(o => o && o.isFBA)
SomeFba(offers) ==
  \E i \in DOMAIN offers : offers[i] # None /\ offers[i][1].isFBA

\* offers.some(o => o && o.isFBA && o.isBuyBoxWinner)
SomeFbaWinner(offers) ==
  \E i \in DOMAIN offers :
    offers[i] # None /\ offers[i][1].isFBA /\ offers[i][1].isBuyBoxWinner

\* p.stats?.offerCountFBA ?? p.stats?.offerCountNewFBA
StatCount(p) ==
  Nullish(StatsField(p, "offerCountFBA"), StatsField(p, "offerCountNewFBA"))

\* offers.filter(o => o.isFBA) reads a property of null: TypeError.  The
\* filter runs only when neither statistic is present.
FbaCountThrows(p) ==
  StatCount(p) = None /\ \E i \in DOMAIN OffersOf(p) : OffersOf(p)[i] = None

\* (statistic ?? statistic ?? offers.filter(o => o.isFBA).length) || null
FbaCount(p) ==
  LET offers == OffersOf(p)
      raw == IF StatCount(p) # None
             THEN StatCount(p)[1]
             ELSE Cardinality({i \in DOMAIN offers : offers[i][1].isFBA})
  IN IF raw = 0 THEN None ELSE Some(raw)

\* (history.length ? history[last] : p.stats?.buyBoxPrice) || 0
BbCents(p) ==
  OrZero(IF p.buyBoxPriceHistory # None /\ Len(p.buyBoxPriceHistory[1]) > 0
         THEN Some(p.buyBoxPriceHistory[1][Len(p.buyBoxPriceHistory[1])])
         ELSE StatsField(p, "buyBoxPrice"))

\* p.stats?.current_NEW || 0
NewCents(p) == OrZero(StatsField(p, "current_NEW"))

\* (bbCents || newCents), the sale price in cents
SaleCents(p) == IF BbCents(p) # 0 THEN BbCents(p) ELSE NewCents(p)

\* drops90 ? Math.round(drops90 / 3) : drops30 ?? null
DropsPerMonth(p) ==
  IF OrZero(StatsField(p, "drops90")) # 0
  THEN Some(RoundThird(StatsField(p, "drops90")[1]))
  ELSE StatsField(p, "drops30")

\* Math.max(3, Number((salePrice * 0.35).toFixed(2))), in cents.  A price with
\* cents % 20 = 10 puts salePrice * 0.35 on a half cent, where the binary
\* double decides the rounding; no price of the model is one.
BuyCents(sale) == Max(300, RoundDiv(35 * sale, 100))

\* buyPrice + 0.5 + 0.5, in 1/10000 dollar
Landed(sale) == 100 * BuyCents(sale) + 5000 + 5000

\* salePrice - (referral + fba + storageEst) - landed, in 1/10000 dollar
Profit(sale) ==
  LET fee == estimateFbaFee(sale)
  IN 100 * sale - (fee.referral + fee.fba + fee.storageEst) - Landed(sale)

\* landed > 0 ? profit / landed : 0
Roi(sale) ==
  IF Landed(sale) > 0
  THEN [num |-> Profit(sale), den |-> Landed(sale)]
  ELSE [num |-> 0, den |-> 1]

\* Number((roi * 100).toFixed(2)), in hundredths of a percent; den is a
\* multiple of 100, which keeps the product within 32 bits
RoiPct(roi) ==
  IF roi.den % 100 = 0
  THEN RoundDiv(roi.num * 100, roi.den \div 100)
  ELSE RoundDiv(roi.num * 10000, roi.den)

Degenerate(p) ==
  [kind |-> "deal", asin |-> p.asin, title |-> p.title, score |-> 0,
   decision |-> "PASS", risks |-> <<"No price data">>, econ |-> None,
   links |-> linksFor(p.asin)]

productToDeal(p) ==
  IF FbaCountThrows(p) THEN [kind |-> "throw", error |-> <<"TypeError">>]
  ELSE IF SaleCents(p) <= 0 THEN Degenerate(p)
  ELSE
    LET sale == SaleCents(p)
        rating == OrZero(StatsField(p, "rating"))
        reviewCount == OrZero(StatsField(p, "reviewCount"))
        reviewOk == rating >= 40 /\ reviewCount >= 20
    IN [kind |-> "deal", asin |-> p.asin, title |-> p.title,
        score |-> scoreDeal(Roi(sale), Profit(sale), DropsPerMonth(p),
                            FbaCount(p), reviewOk),
        decision |-> decide(Roi(sale), Profit(sale), FbaCount(p)),
        risks |-> <<>>,
        econ |-> Some([retailer |-> "TBD",
                       salePrice |-> sale,
                       buyPrice |-> BuyCents(sale),
                       profitPerUnit |-> RoundDiv(Profit(sale), 100),
                       roiPct |-> RoiPct(Roi(sale)),
                       fba |-> [hasFbaOffer |-> SomeFba(OffersOf(p)),
                                fbaWinsBuyBox |-> SomeFbaWinner(OffersOf(p)),
                                fbaOfferCount |-> FbaCount(p)],
                       velocity |-> [dropsPerMonth |-> DropsPerMonth(p),
                                     bsr |-> StatsField(p, "current_SALES")],
                       rating |-> rating,
                       reviewCount |-> reviewCount]),
        links |-> linksFor(p.asin)]

\* ------------------------------------------------------------ provider records

Offer(fba, winner) == Some([isFBA |-> fba, isBuyBoxWinner |-> winner])

\* p.offers: missing or not an array, or an array whose entries may be null
OfferLists ==
  {None,
   Some(<<>>),
   Some(<<None>>),
   Some(<<Offer(TRUE, FALSE)>>),
   Some(<<None, Offer(TRUE, TRUE)>>),
   Some(<<Offer(FALSE, TRUE), Offer(TRUE, FALSE), Offer(TRUE, FALSE)>>)}

\* p.buyBoxPriceHistory: missing, empty, or ending in a sentinel, zero or price
Histories ==
  {None, Some(<<>>), Some(<<-1>>), Some(<<0>>), Some(<<1500, 2000>>)}

BuyBoxPrices == {None, Some(-1), Some(0), Some(1800)}

NewPrices == {None, Some(0), Some(1000)}

\* <<offerCountFBA, offerCountNewFBA>>
OfferCounts ==
  {<<None, None>>, <<Some(0), None>>, <<Some(4), None>>, <<Some(5), None>>,
   <<None, Some(0)>>, <<None, Some(2)>>, <<Some(0), Some(2)>>}

\* <<rating, reviewCount>>
Reviews ==
  {<<None, None>>, <<Some(40), Some(20)>>, <<Some(39), Some(20)>>,
   <<Some(40), Some(19)>>}

\* <<drops90, drops30, current_SALES>>
Drops ==
  {<<None, None, None>>, <<Some(0), Some(6), Some(900)>>,
   <<None, Some(5), Some(900)>>, <<Some(17), None, None>>,
   <<Some(15), Some(9), Some(900)>>}

Titles == {None, Some("Widget")}

StatsChoices ==
  {None} \cup
  {Some([offerCountFBA |-> c[1], offerCountNewFBA |-> c[2],
         buyBoxPrice |-> b, current_NEW |-> n,
         rating |-> r[1], reviewCount |-> r[2],
         drops90 |-> d[1], drops30 |-> d[2], current_SALES |-> d[3]]) :
     c \in OfferCounts, b \in BuyBoxPrices, n \in NewPrices,
     r \in Reviews, d \in Drops}

Records ==
  {[asin |-> "B000TEST01", title |-> t, offers |-> o, stats |-> s,
    buyBoxPriceHistory |-> h] :
     t \in Titles, o \in OfferLists, s \in StatsChoices, h \in Histories}

\* ------------------------------------------------------------ decide inputs

\* roi in hundredths
RoiChoices == {14, 15, 16, 29, 30, 31}

\* profit in cents
ProfitChoices == {299, 300, 301, 399, 400, 401, 499, 500, 501}

NearbyChoices == {None} \cup {Some(n) : n \in 3..7}

Signals ==
  {[roi |-> [num |-> r, den |-> 100], profit |-> 100 * c, nearbyOffers |-> n] :
     r \in RoiChoices, c \in ProfitChoices, n \in NearbyChoices}

\* ------------------------------------------------------------ state

Idle ==
  /\ ARB_KEY = None
  /\ pc = "idle"
  /\ req = None
  /\ calls = <<>>
  /\ replies = <<>>
  /\ found = None
  /\ res = <<>>

httpVars == <<ARB_KEY, pc, req, calls, replies, found, res>>

\* ------------------------------------------------------------ productToDeal alone

InitDeal ==
  /\ rec \in Records
  /\ deal = None
  /\ sig = None
  /\ verdict = None
  /\ Idle

Normalize ==
  /\ deal = None
  /\ deal' = Some(productToDeal(rec))
  /\ UNCHANGED <<rec, sig, verdict, httpVars>>

SpecDeal == InitDeal /\ [][Normalize]_vars

\* ------------------------------------------------------------ decide alone

InitDecide ==
  /\ sig \in Signals
  /\ verdict = None
  /\ rec = None
  /\ deal = None
  /\ Idle

Classify ==
  /\ verdict = None
  /\ verdict' = Some(decide(sig.roi, sig.profit, sig.nearbyOffers))
  /\ UNCHANGED <<rec, deal, sig, httpVars>>

SpecDecide == InitDecide /\ [][Classify]_vars

\* ------------------------------------------------------------ HTTP layer

\* asins.slice(0, 80)
BatchSize == 80

\* keepaProductFinder({ perPage: 120 })
PerPage == 120

\* longest product list the provider returns in the model
MaxProducts == 2

Fallback ==
  <<"B07FZ8S74R", "B08N5WRWNW", "B07PGL2ZSL", "B0BQLQ5ZDM", "B08CFSZLQ4",
    "B07W7QTMF4">>

Resp(status, error, payload) ==
  [status |-> status, error |-> error, payload |-> payload]

\* the shared key may be unset in the environment
KeyConfigs == {None, Some("s3cret")}

\* the X-ARBSCOUT-KEY header: absent, empty, wrong, right
HeaderKeys == {None, Some(""), Some("guess"), Some("s3cret")}

\* requireKey lets the request through: !(!key || key !== ARB_KEY)
requireKey(key) == ~(key = None \/ key = Some("") \/ key # ARB_KEY)

\* the second server's middleware lets the request through
authMiddleware(key) == ~(key # ARB_KEY)

\* ---- query-string and body values

IsDigit(c) == c \in {"0", "1", "2", "3", "4", "5", "6", "7", "8", "9"}

DigitVal(c) ==
  CASE c = "0" -> 0 [] c = "1" -> 1 [] c = "2" -> 2 [] c = "3" -> 3
    [] c = "4" -> 4 [] c = "5" -> 5 [] c = "6" -> 6 [] c = "7" -> 7
    [] c = "8" -> 8 [] c = "9" -> 9

RECURSIVE DigitsValue(_)
DigitsValue(t) ==
  IF t = <<>> THEN 0
  ELSE 10 * DigitsValue(SubSeq(t, 1, Len(t) - 1)) + DigitVal(t[Len(t)])

\* Number(req.query.minScore ?? 0) for a text of characters: <<>> is NaN
NumberOf(raw) ==
  IF raw = None THEN Some(0)
  ELSE IF \A i \in DOMAIN raw[1] : IsDigit(raw[1][i])
       THEN Some(DigitsValue(raw[1]))
       ELSE None

ToUpper(c) == CASE c = "b" -> "B" [] c = "x" -> "X" [] OTHER -> c

RECURSIVE Trim(_)
Trim(t) ==
  IF t = <<>> THEN t
  ELSE IF Head(t) = " " THEN Trim(Tail(t))
  ELSE IF t[Len(t)] = " " THEN Trim(SubSeq(t, 1, Len(t) - 1))
  ELSE t

\* String(query).trim().toUpperCase()
AsinOfQuery(q) == [i \in DOMAIN Trim(q) |-> ToUpper(Trim(q)[i])]

MinScoreTexts ==
  {None, Some(<<>>), Some(<<"x">>), Some(<<"3", "0">>), Some(<<"7", "1">>)}

DecisionTexts == {None, Some(""), Some("BUY"), Some("WATCH"), Some("PASS")}

\* req.body: no body, a body without query, an empty query, a query
Bodies ==
  {None, Some([query |-> None]), Some([query |-> Some(<<>>)]),
   Some([query |-> Some(<<"b", "0", "x">>)]),
   Some([query |-> Some(<<" ", "B", "0", "X", " ">>)])}

Requests ==
  {[route |-> "/healthz", key |-> k, minScore |-> None, decision |-> None,
    body |-> None] : k \in {None}}
  \cup
  {[route |-> "/deals/today", key |-> k, minScore |-> m, decision |-> d,
    body |-> None] : k \in HeaderKeys, m \in MinScoreTexts, d \in DecisionTexts}
  \cup
  {[route |-> "/arbitrage/score", key |-> k, minScore |-> None,
    decision |-> None, body |-> b] : k \in HeaderKeys, b \in Bodies}
  \cup
  {[route |-> "/deals", key |-> k, minScore |-> None, decision |-> None,
    body |-> None] : k \in HeaderKeys}

\* ---- what the provider may answer

Asin(i) == "A" \o ToString(i)

AsinList(n) == [i \in 1..n |-> Asin(i)]

FinderLengths == {0, 1, BatchSize, BatchSize + 1, PerPage}

\* fetch fails, {error}, {asins}, {products} with a record lacking its asin,
\* or a body with neither list
FinderAnswers ==
  {[kind |-> "fail"], [kind |-> "error"], [kind |-> "neither"],
   [kind |-> "products", products |-> <<Some("P1"), None, Some("P2")>>]}
  \cup {[kind |-> "asins", asins |-> AsinList(n)] : n \in FinderLengths}

Stats(fba, newFba, bb, new, rating, reviews, d90) ==
  Some([offerCountFBA |-> fba, offerCountNewFBA |-> newFba,
        buyBoxPrice |-> bb, current_NEW |-> new, rating |-> rating,
        reviewCount |-> reviews, drops90 |-> d90, drops30 |-> None,
        current_SALES |-> None])

Product(asin, history, offers, stats) ==
  [asin |-> asin, title |-> Some("Widget"), offers |-> offers, stats |-> stats,
   buyBoxPriceHistory |-> history]

HttpRecords ==
  {Product("B0GOOD", Some(<<2999>>), None,
           Stats(Some(2), None, None, None, Some(45), Some(120), Some(30))),
   Product("B0WATCH", Some(<<0>>), None,
           Stats(Some(6), None, Some(2500), Some(1800), None, None, None)),
   Product("B0CHEAP", None, None,
           Stats(Some(1), None, None, Some(999), None, None, None)),
   Product("B0EDGE", None, Some(<<Offer(TRUE, TRUE)>>),
           Stats(None, None, Some(8000), None, None, None, None)),
   Product("B0OVER", None, None,
           Stats(Some(1), None, Some(8001), None, None, None, None)),
   Product("B0NOFBA", None, Some(<<Offer(FALSE, TRUE)>>),
           Stats(Some(0), None, None, Some(2000), None, None, None)),
   Product("B0NULL", None, Some(<<None, Offer(TRUE, FALSE)>>),
           Stats(None, None, None, Some(2000), None, None, None)),
   Product("B0SENT", Some(<<-1>>), None,
           Stats(Some(2), None, Some(2000), Some(2000), None, None, None)),
   Product("B0ZERO", None, Some(<<Offer(TRUE, FALSE)>>),
           Stats(Some(0), None, None, Some(1000), Some(40), Some(20), None))}

ProductLists == UNION {[1..n -> HttpRecords] : n \in 0..MaxProducts}

ProductAnswers ==
  {[kind |-> "fail"], [kind |-> "error"], [kind |-> "neither"]}
  \cup {[kind |-> "products", products |-> l] : l \in ProductLists}

\* rows of the second server's finder: buyBoxSellerId, buyBoxPrice, currentPrice
Row(seller, bb, cur) ==
  [asin |-> "B0ROW", title |-> Some("Widget"), buyBoxSellerId |-> seller,
   buyBoxPrice |-> bb, currentPrice |-> cur]

QueryAnswers ==
  {[kind |-> "fail"], [kind |-> "error"],
   [kind |-> "products", products |-> <<>>],
   [kind |-> "products", products |-> <<Row(Some("S1"), Some(2500), Some(2700))>>],
   [kind |-> "products",
    products |-> <<Row(None, Some(2500), Some(2700)), Row(None, None, None)>>]}

\* ---- provider wrappers: what the awaited call returns or throws

keepaProductFinderNoCheck(ans) ==
  CASE ans.kind = "fail" -> [threw |-> TRUE, error |-> <<"fetch failed">>]
    [] ans.kind = "asins" -> [threw |-> FALSE, value |-> ans.asins]
    [] ans.kind = "products" ->
         [threw |-> FALSE,
          value |-> [i \in DOMAIN SelectSeq(ans.products, LAMBDA a : a # None) |->
                       SelectSeq(ans.products, LAMBDA a : a # None)[i][1]]]
    [] OTHER -> [threw |-> FALSE, value |-> <<>>]

keepaProductFinder(ans) ==
  CASE ans.kind = "fail" -> [threw |-> TRUE, error |-> <<"fetch failed">>]
    [] ans.kind = "error" ->
         [threw |-> TRUE, error |-> <<"Keepa finder error: ", "upstream">>]
    [] ans.kind = "asins" -> [threw |-> FALSE, value |-> ans.asins]
    [] ans.kind = "products" ->
         [threw |-> FALSE,
          value |-> [i \in DOMAIN SelectSeq(ans.products, LAMBDA a : a # None) |->
                       SelectSeq(ans.products, LAMBDA a : a # None)[i][1]]]
    [] OTHER -> [threw |-> FALSE, value |-> <<>>]

\* keepaGetProducts after its fetch: j.error throws, else j.products || []
keepaGetProducts(ans) ==
  CASE ans.kind = "fail" -> [threw |-> TRUE, error |-> <<"fetch failed">>]
    [] ans.kind = "error" ->
         [threw |-> TRUE, error |-> <<"Keepa product error: ", "upstream">>]
    [] ans.kind = "products" -> [threw |-> FALSE, value |-> ans.products]
    [] OTHER -> [threw |-> FALSE, value |-> <<>>]

\* ---- GET /deals/today after the products are in

\* (statistic ?? statistic ?? 0) > 0 || (Array.isArray(offers) && offers.some(...))
HasFba(p) ==
  \/ Nullish(StatCount(p), Some(0))[1] > 0
  \/ (p.offers # None /\ SomeFba(p.offers[1]))

\* the pre-filter's own price: (history.length ? last : buyBoxPrice) || 0, etc.
FilterBb(p) ==
  OrZero(IF p.buyBoxPriceHistory # None /\ Len(p.buyBoxPriceHistory[1]) > 0
         THEN Some(p.buyBoxPriceHistory[1][Len(p.buyBoxPriceHistory[1])])
         ELSE StatsField(p, "buyBoxPrice"))

FilterNew(p) == OrZero(StatsField(p, "current_NEW"))

FilterCents(p) == IF FilterBb(p) # 0 THEN FilterBb(p) ELSE FilterNew(p)

fbaEligibleNoBand(p) == HasFba(p)

\* hasFba && price >= 10 && price <= 80
fbaEligible(p) == HasFba(p) /\ FilterCents(p) >= 1000 /\ FilterCents(p) <= 8000

RECURSIVE InsertByScore(_, _)
InsertByScore(sorted, d) ==
  IF sorted = <<>> THEN <<d>>
  ELSE IF Head(sorted).score >= d.score
       THEN <<Head(sorted)>> \o InsertByScore(Tail(sorted), d)
       ELSE <<d>> \o sorted

SortByScoreKeepOrder(s) == s

\* .sort((a, b) => b.score - a.score): stable, score descending
RECURSIVE SortByScore(_)
SortByScore(s) ==
  IF s = <<>> THEN <<>>
  ELSE InsertByScore(SortByScore(SubSeq(s, 1, Len(s) - 1)), s[Len(s)])

\* decisionFilter ? d.decision === decisionFilter : true
DecisionPass(d, decisionFilter) ==
  IF decisionFilter # None /\ decisionFilter # Some("")
  THEN d.decision = decisionFilter[1]
  ELSE TRUE

\* d.score >= minScore, false for NaN
ScorePass(d, minScore) == minScore # None /\ d.score >= minScore[1]

\* steps 2 (filter) and 3 of the handler, and its catch
DealsTodayRespond(r, products) ==
  LET eligible == SelectSeq(products, fbaEligible)
      mapped == [i \in DOMAIN eligible |-> productToDeal(eligible[i])]
      dealsAll == SortByScore(mapped)
      byDecision == SelectSeq(dealsAll, LAMBDA d : DecisionPass(d, r.decision))
      deals == SelectSeq(byDecision, LAMBDA d : ScorePass(d, NumberOf(r.minScore)))
  IN IF \E i \in DOMAIN mapped : mapped[i].kind = "throw"
     THEN Resp(500, Some(<<"TypeError">>), None)
     ELSE Resp(200, None, Some([generatedAt |-> "now", deals |-> deals]))

\* ---- POST /arbitrage/score after the products are in

ScoreRespond(asin, products) ==
  IF products = <<>>
  THEN Resp(404, Some(<<"No Keepa product found for ", asin>>), None)
  ELSE IF productToDeal(products[1]).kind = "throw"
       THEN Resp(500, Some(productToDeal(products[1]).error), None)
       ELSE Resp(200, None, Some(productToDeal(products[1])))

\* ---- GET /deals of the second server after its fetch

\* p.buyBoxSellerId ? p.buyBoxPrice / 100 : p.currentPrice / 100, in cents
RowPrice(p) == IF p.buyBoxSellerId # None THEN p.buyBoxPrice ELSE p.currentPrice

DealsRespond(ans) ==
  IF ans.kind = "fail" THEN Resp(500, Some(<<"Error fetching deals">>), None)
  ELSE IF ans.kind = "error" \/ ans.products = <<>>
       THEN Resp(200, None, Some([deals |-> <<>>, note |-> Some("No products found")]))
       ELSE Resp(200, None,
                 Some([deals |-> [i \in DOMAIN ans.products |->
                                    [asin |-> ans.products[i].asin,
                                     title |-> ans.products[i].title,
                                     price |-> RowPrice(ans.products[i]),
                                     url |-> ans.products[i].asin]],
                       note |-> None]))

\* ---- actions

Call(kind, asins) == [kind |-> kind, asins |-> asins]

\* a request arrives: the auth check and the handler up to its first await
Started(r) ==
  CASE r.route = "/healthz" ->
         [pc |-> "done", calls |-> <<>>, res |-> <<Resp(200, None, Some("ok"))>>]
    [] r.route \in {"/deals/today", "/arbitrage/score"} /\ ~requireKey(r.key) ->
         [pc |-> "done", calls |-> <<>>,
          res |-> <<Resp(401, Some(<<"Unauthorized">>), None)>>]
    [] r.route = "/deals" /\ ~authMiddleware(r.key) ->
         [pc |-> "done", calls |-> <<>>,
          res |-> <<Resp(401, Some(<<"Unauthorized">>), None)>>]
    [] r.route = "/deals/today" ->
         [pc |-> "finder", calls |-> <<Call("query", <<>>)>>, res |-> <<>>]
    [] r.route = "/arbitrage/score" ->
         IF r.body = None \/ r.body[1].query = None \/ r.body[1].query = Some(<<>>)
         THEN [pc |-> "done", calls |-> <<>>,
               res |-> <<Resp(400, Some(<<"Missing 'query' (ASIN/UPC/EAN)">>), None)>>]
         ELSE [pc |-> "product",
               calls |-> <<Call("product", <<AsinOfQuery(r.body[1].query[1])>>)>>,
               res |-> <<>>]
    [] r.route = "/deals" ->
         [pc |-> "query", calls |-> <<Call("query", <<>>)>>, res |-> <<>>]

Receive(r) ==
  /\ pc = "idle"
  /\ req' = Some(r)
  /\ pc' = Started(r).pc
  /\ calls' = Started(r).calls
  /\ res' = Started(r).res
  /\ replies' = <<>>
  /\ found' = None
  /\ UNCHANGED <<rec, deal, sig, verdict, ARB_KEY>>

AfterFinderNoFallback(ans) ==
  LET f == keepaProductFinder(ans)
      batch == SubSeq(f.value, 1, Min(BatchSize, Len(f.value)))
  IN IF f.threw
     THEN [pc |-> "done", calls |-> calls, found |-> None,
           res |-> <<Resp(500, Some(f.error), None)>>]
     ELSE IF batch = <<>>
          THEN [pc |-> "done", calls |-> calls, found |-> Some(f.value),
                res |-> <<DealsTodayRespond(req[1], <<>>)>>]
          ELSE [pc |-> "product", calls |-> Append(calls, Call("product", batch)),
                found |-> Some(f.value), res |-> <<>>]

\* GET /deals/today resumes after keepaProductFinder's fetch
AfterFinder(ans) ==
  LET f == keepaProductFinder(ans)
      asins == IF f.value = <<>> THEN Fallback ELSE f.value
      batch == SubSeq(asins, 1, Min(BatchSize, Len(asins)))
  IN IF f.threw
     THEN [pc |-> "done", calls |-> calls, found |-> None,
           res |-> <<Resp(500, Some(f.error), None)>>]
     ELSE IF batch = <<>>
          THEN [pc |-> "done", calls |-> calls, found |-> Some(f.value),
                res |-> <<DealsTodayRespond(req[1], <<>>)>>]
          ELSE [pc |-> "product", calls |-> Append(calls, Call("product", batch)),
                found |-> Some(f.value), res |-> <<>>]

FinderAnswered(ans) ==
  /\ pc = "finder"
  /\ replies' = Append(replies, ans)
  /\ pc' = AfterFinder(ans).pc
  /\ calls' = AfterFinder(ans).calls
  /\ found' = AfterFinder(ans).found
  /\ res' = AfterFinder(ans).res
  /\ UNCHANGED <<rec, deal, sig, verdict, ARB_KEY, req>>

\* either route resumes after keepaGetProducts' fetch
AfterProducts(ans) ==
  LET g == keepaGetProducts(ans)
  IN IF g.threw THEN Resp(500, Some(g.error), None)
     ELSE IF req[1].route = "/deals/today" THEN DealsTodayRespond(req[1], g.value)
     ELSE ScoreRespond(calls[Len(calls)].asins[1], g.value)

ProductsAnswered(ans) ==
  /\ pc = "product"
  /\ replies' = Append(replies, ans)
  /\ pc' = "done"
  /\ res' = <<AfterProducts(ans)>>
  /\ UNCHANGED <<rec, deal, sig, verdict, ARB_KEY, req, calls, found>>

\* GET /deals of the second server resumes after its fetch
QueryAnswered(ans) ==
  /\ pc = "query"
  /\ replies' = Append(replies, ans)
  /\ pc' = "done"
  /\ res' = <<DealsRespond(ans)>>
  /\ UNCHANGED <<rec, deal, sig, verdict, ARB_KEY, req, calls, found>>

\* the response is out: nothing of the request is kept (no state is shared
\* between requests)
Finish ==
  /\ pc = "done"
  /\ pc' = "idle"
  /\ req' = None
  /\ calls' = <<>>
  /\ replies' = <<>>
  /\ found' = None
  /\ res' = <<>>
  /\ UNCHANGED <<rec, deal, sig, verdict, ARB_KEY>>

Init ==
  /\ ARB_KEY \in KeyConfigs
  /\ pc = "idle"
  /\ req = None
  /\ calls = <<>>
  /\ replies = <<>>
  /\ found = None
  /\ res = <<>>
  /\ rec = None
  /\ deal = None
  /\ sig = None
  /\ verdict = None

Next ==
  \/ \E r \in Requests : Receive(r)
  \/ \E ans \in FinderAnswers : FinderAnswered(ans)
  \/ \E ans \in ProductAnswers : ProductsAnswered(ans)
  \/ \E ans \in QueryAnswers : QueryAnswered(ans)
  \/ Finish

Spec == Init /\ [][Next]_vars

\* ------------------------------------------------------------ claims

\* ---- helpers of the statements

IsDealsToday == req # None /\ req[1].route = "/deals/today"

IsScore == req # None /\ req[1].route = "/arbitrage/score"

Answered200 == pc = "done" /\ Len(res) = 1 /\ res[1].status = 200

ReturnedDeals == res[1].payload[1].deals

\* the records of the bulk-detail answer, when there was one
AnsweredProducts ==
  IF Len(replies) = 2 /\ replies[2].kind = "products" THEN replies[2].products
  ELSE <<>>

FilterSupplied == req[1].decision # None /\ req[1].decision # Some("")

\* record k passed the pre-filter and its deal satisfies both query filters
Qualifies(k) ==
  LET p == AnsweredProducts[k]
  IN /\ fbaEligible(p)
     /\ NumberOf(req[1].minScore) # None
     /\ productToDeal(p).score >= NumberOf(req[1].minScore)[1]
     /\ (FilterSupplied => productToDeal(p).decision = req[1].decision[1])

\* C1: every 200 response of GET /deals/today lists its deals by score
\* non-increasing, every deal has score >= minScore and, when a (non-empty)
\* decision filter is supplied, the filter's decision; and the response holds
\* one deal for each answered record that passed the pre-filter and satisfies
\* both filters, none omitted.
C1_SortedFilteredComplete ==
  (IsDealsToday /\ Answered200) =>
    /\ \A i, j \in DOMAIN ReturnedDeals :
         i < j => ReturnedDeals[i].score >= ReturnedDeals[j].score
    /\ \A i \in DOMAIN ReturnedDeals :
         /\ NumberOf(req[1].minScore) # None
         /\ ReturnedDeals[i].score >= NumberOf(req[1].minScore)[1]
         /\ FilterSupplied => ReturnedDeals[i].decision = req[1].decision[1]
    /\ Len(ReturnedDeals) =
         Cardinality({k \in DOMAIN AnsweredProducts : Qualifies(k)})
    /\ \A k \in DOMAIN AnsweredProducts :
         Qualifies(k) =>
           \E i \in DOMAIN ReturnedDeals :
             ReturnedDeals[i] = productToDeal(AnsweredProducts[k])

\* two BUY deals come back in the opposite order of their records, under a
\* decision filter and a minimum score
C1_Witness ==
  /\ IsDealsToday /\ Answered200
  /\ req[1].decision = Some("BUY")
  /\ NumberOf(req[1].minScore) = Some(30)
  /\ Len(AnsweredProducts) = 2
  /\ Len(ReturnedDeals) = 2
  /\ ReturnedDeals[1].score > ReturnedDeals[2].score
  /\ ReturnedDeals[2].asin = AnsweredProducts[1].asin

\* C2 as stated: BUY iff roi >= 0.30, profit >= 4 and competingOffers <= 6;
\* otherwise WATCH iff roi >= 0.15 and profit >= 3; otherwise PASS.
C2_AsStated ==
  verdict # None =>
    LET buy == /\ sig.roi.num * 100 >= 30 * sig.roi.den
               /\ sig.profit >= 40000
               /\ sig.nearbyOffers # None
               /\ sig.nearbyOffers[1] <= 6
        watch == sig.roi.num * 100 >= 15 * sig.roi.den /\ sig.profit >= 30000
    IN verdict[1] = IF buy THEN "BUY" ELSE IF watch THEN "WATCH" ELSE "PASS"

\* C2 amended: BUY iff roi > 0.30, profit > 5 and the competing-offer count
\* is known and < 5; otherwise WATCH iff roi > 0.15 and profit > 3; otherwise
\* PASS.
C2_StrictThresholds ==
  verdict # None =>
    LET buy == /\ sig.roi.num * 100 > 30 * sig.roi.den
               /\ sig.profit > 50000
               /\ sig.nearbyOffers # None
               /\ sig.nearbyOffers[1] < 5
        watch == sig.roi.num * 100 > 15 * sig.roi.den /\ sig.profit > 30000
    IN /\ (verdict[1] = "BUY") <=> buy
       /\ (verdict[1] = "WATCH") <=> (~buy /\ watch)
       /\ (verdict[1] = "PASS") <=> (~buy /\ ~watch)

\* roi 0.30 exactly, profit 5.01, four offers: not BUY, on the roi boundary
C2_Witness ==
  /\ verdict = Some("WATCH")
  /\ sig.roi.num = 30 /\ sig.roi.den = 100
  /\ sig.profit = 50100
  /\ sig.nearbyOffers = Some(4)

\* the price sources in the claim's order: last history entry, buy-box
\* statistic, current-new statistic
PriceSources(p) ==
  <<IF p.buyBoxPriceHistory # None /\ Len(p.buyBoxPriceHistory[1]) > 0
    THEN Some(p.buyBoxPriceHistory[1][Len(p.buyBoxPriceHistory[1])])
    ELSE None,
    StatsField(p, "buyBoxPrice"),
    StatsField(p, "current_NEW")>>

\* the first positive source, 0 when there is none
FirstPositive(p) ==
  LET src == PriceSources(p)
      pos == {i \in 1..3 : src[i] # None /\ src[i][1] > 0}
  IN IF pos = {} THEN 0
     ELSE src[CHOOSE i \in pos : \A j \in pos : i <= j][1]

\* C3: the sale price is the first positive source in the order history,
\* buy-box statistic, current-new statistic; the degenerate "No price data"
\* deal is returned only when no source is positive.
C3_FirstPositiveSourceWins ==
  (deal # None /\ deal[1].kind = "deal") =>
    IF FirstPositive(rec) > 0
    THEN /\ deal[1].econ # None
         /\ deal[1].econ[1].salePrice = FirstPositive(rec)
    ELSE /\ deal[1].econ = None
         /\ deal[1].score = 0
         /\ deal[1].risks = <<"No price data">>
         /\ deal[1].decision \in {"PASS", "WATCH"}

\* the competing-offer count of the claim: the statistic when present, else
\* the count over the offers list; unknown with no statistic and no listed
\* offer
ClaimedCount(p) ==
  IF StatCount(p) # None THEN StatCount(p)
  ELSE IF OffersOf(p) = <<>> THEN None
  ELSE Some(Cardinality({i \in DOMAIN p.offers[1] :
                           p.offers[1][i] # None /\ p.offers[1][i][1].isFBA}))

\* C4: with a resolvable price the score is the sum of +30 (roi > 0.30),
\* +25 (profit > 5), +20 (drops per month > 5), +15 (derived offer count
\* < 5, counts 0..4 included), +10 (review quality ok), an integer in 0..100.
C4_ScoreIsSumOfPoints ==
  (deal # None /\ deal[1].kind = "deal" /\ deal[1].econ # None) =>
    LET sale == deal[1].econ[1].salePrice
        drops == deal[1].econ[1].velocity.dropsPerMonth
        count == ClaimedCount(rec)
    IN /\ deal[1].score =
            (IF Profit(sale) * 100 > 30 * Landed(sale) THEN 30 ELSE 0)
            + (IF Profit(sale) > 50000 THEN 25 ELSE 0)
            + (IF drops # None /\ drops[1] > 5 THEN 20 ELSE 0)
            + (IF count # None /\ count[1] < 5 THEN 15 ELSE 0)
            + (IF deal[1].econ[1].rating >= 40 /\ deal[1].econ[1].reviewCount >= 20
               THEN 10 ELSE 0)
       /\ deal[1].score \in 0..100

\* C5: productToDeal returns a Deal for every record, whichever optional
\* fields are absent or null; it never throws.
C5_NeverThrows == deal # None => deal[1].kind = "deal"

IsFirstServerRoute ==
  req # None /\ req[1].route \in {"/deals/today", "/arbitrage/score"}

UpstreamFailed(i) == replies[i].kind \in {"error", "fail"}

IsDataRoute ==
  req # None /\ req[1].route \in {"/deals/today", "/arbitrage/score", "/deals"}

\* C7: a request to a data-bearing route whose key header is absent or
\* differs from the configured key gets 401 Unauthorized and causes no
\* provider call, also when the key is not configured.
C7_UnauthorizedIs401 ==
  (IsDataRoute /\ (req[1].key = None \/ req[1].key # ARB_KEY)) =>
    /\ calls = <<>>
    /\ pc = "done"
    /\ res = <<Resp(401, Some(<<"Unauthorized">>), None)>>

HasQuery ==
  /\ req[1].body # None
  /\ req[1].body[1].query # None
  /\ req[1].body[1].query # Some(<<>>)

\* C8: an authorized POST /arbitrage/score answers 400 without a provider
\* call when the query is missing; otherwise it makes one bulk-detail call
\* for the one identifier and answers 404 naming it when no record comes
\* back, 200 with one Deal when a record comes back, 500 when the call
\* fails; one response per request.
C8_ScoreOneOutcome ==
  (IsScore /\ requireKey(req[1].key) /\ pc = "done") =>
    /\ Len(res) = 1
    /\ IF ~HasQuery
       THEN calls = <<>> /\ res[1].status = 400 /\ res[1].error # None
       ELSE /\ Len(calls) = 1
            /\ calls[1].kind = "product"
            /\ Len(calls[1].asins) = 1
            /\ Len(replies) = 1
            /\ IF UpstreamFailed(1)
               THEN res[1].status = 500 /\ res[1].error # None
               ELSE IF replies[1].kind = "neither" \/ replies[1].products = <<>>
               THEN /\ res[1].status = 404
                    /\ res[1].error # None
                    /\ res[1].error[1][2] = calls[1].asins[1]
               ELSE /\ res[1].status = 200
                    /\ res[1].payload # None
                    /\ res[1].payload[1].kind = "deal"

\* C9: in GET /deals/today, once discovery has succeeded the bulk-detail call
\* has been issued, second and last, with the first 80 discovered
\* identifiers in order, or with the six fallback identifiers when discovery
\* reported none: never skipped, never with an empty list.
C9_DetailCallAfterDiscovery ==
  (IsDealsToday /\ found # None) =>
    /\ Len(calls) = 2
    /\ calls[1].kind = "query"
    /\ calls[2].kind = "product"
    /\ Len(calls[2].asins) \in 1..80
    /\ IF found[1] = <<>>
       THEN /\ calls[2].asins = Fallback
            /\ Len(calls[2].asins) = 6
       ELSE /\ Len(calls[2].asins) = Min(80, Len(found[1]))
            /\ \A i \in DOMAIN calls[2].asins : calls[2].asins[i] = found[1][i]

\* discovery reported zero candidates and the fallback list was fetched
C9_Witness ==
  /\ IsDealsToday
  /\ found = Some(<<>>)
  /\ Len(calls) = 2
  /\ calls[2].asins[1] = "B07FZ8S74R"

\* C10: every deal of a 200 response of GET /deals/today is the deal of an
\* answered record that passed the pre-filter; the pre-filter's price is
\* productToDeal's price; so the deal has a sale price of 10..80 dollars,
\* its economic fields, no risks, and is not the "No price data" deal.
C10_ReturnedDealsInBand ==
  (IsDealsToday /\ Answered200) =>
    /\ \A k \in DOMAIN AnsweredProducts :
         FilterCents(AnsweredProducts[k]) = SaleCents(AnsweredProducts[k])
    /\ \A i \in DOMAIN ReturnedDeals :
         /\ \E k \in DOMAIN AnsweredProducts :
              /\ HasFba(AnsweredProducts[k])
              /\ SaleCents(AnsweredProducts[k]) \in 1000..8000
              /\ ReturnedDeals[i].asin = AnsweredProducts[k].asin
         /\ ReturnedDeals[i].econ # None
         /\ ReturnedDeals[i].econ[1].salePrice \in 1000..8000
         /\ ReturnedDeals[i].risks = <<>>

\* a record at the upper edge of the band is returned while the other
\* answered record, whose history ends in the -1 sentinel, is filtered out
C10_Witness ==
  /\ IsDealsToday /\ Answered200
  /\ Len(AnsweredProducts) = 2
  /\ Len(ReturnedDeals) = 1
  /\ ReturnedDeals[1].econ[1].salePrice = 8000
  /\ \E k \in DOMAIN AnsweredProducts : AnsweredProducts[k].asin = "B0SENT"

====
